---- MODULE Spec2Model ----
(***************************************************************************)
(* Model of the ataxxgen rules engine (src/src/lib.rs, src/src/perft.rs).  *)
(* A 64-bit bitboard is modelled as the set of its set bit positions, so   *)
(* that `|` is \cup, `&` is \cap, `^` is symmetric difference, `!x` is     *)
(* (0..63) \ x, `x << n` moves every position up by n and drops positions  *)
(* above 63, and `x >> n` moves every position down by n and drops         *)
(* positions below 0.                                                      *)
(***************************************************************************)
EXTENDS Integers, Sequences, FiniteSets, TLC

VARIABLES board, last, prev, moves_made, rnd, perft_result, coded, panicked, heard

vars == <<board, last, prev, moves_made, rnd, perft_result, coded, panicked, heard>>

\* ---------------------------------------------------------------- bounds
\* Number of half-moves the driver plays from Board::new().
MaxPly == 3
\* Number of half-moves the driver plays from a constructed position.
MaxPosMoves == 1
\* Largest perft depth evaluated.
MaxDepth == 2
\* Number of half-moves of the long game played with a fixed selector.
MaxLongPly == 260
MaxQuietPly == 101

\* ------------------------------------------------------------- constants
HALFMOVE_LIMIT == 100
U8 == 256

ALL_BITS == 0..63
RANK_8 == 56..63
FILE_H == {s \in ALL_BITS : s % 8 = 7}
BB_ALL_rank_mask_only == ALL_BITS \ RANK_8

BB_ALL == ALL_BITS \ (RANK_8 \cup FILE_H)

NO_SQUARE == 64
A1 == 0
G1 == 6
A7 == 48
G7 == 54

White == "White"
Black == "Black"

\* ---------------------------------------------------------------- Square
file(sq) == sq % 8
rank(sq) == sq \div 8

Abs(n) == IF n < 0 THEN -n ELSE n
Max(a, b) == IF a > b THEN a ELSE b

distance(a, b) == Max(Abs(file(a) - file(b)), Abs(rank(a) - rank(b)))

as_set(sq) == {sq} \cap ALL_BITS

\* ------------------------------------------------------------------ Move
Single(to) == [kind |-> "Single", from |-> NO_SQUARE, to |-> to]
Double(from, to) == [kind |-> "Double", from |-> from, to |-> to]
Pass == [kind |-> "Pass", from |-> NO_SQUARE, to |-> NO_SQUARE]
NoMove == [kind |-> "None", from |-> NO_SQUARE, to |-> NO_SQUARE]

\* ------------------------------------------------------------- bitboards
Xor(a, b) == (a \ b) \cup (b \ a)
Shl(bb, n) == {s + n : s \in bb} \cap ALL_BITS
Shr(bb, n) == {s - n : s \in bb} \cap ALL_BITS

shift_up(bb) == Shl(bb, 8) \cap BB_ALL
shift_down(bb) == Shr(bb, 8) \cap BB_ALL
shift_left(bb) == Shl(bb, 1) \cap BB_ALL
shift_right(bb) == Shr(bb, 1) \cap BB_ALL

expand_rook(bb) ==
    (shift_up(bb) \cup shift_down(bb) \cup bb \cup shift_left(bb) \cup shift_right(bb)) \cap BB_ALL

expand(bb) ==
    LET vertical == shift_up(bb) \cup shift_down(bb) \cup bb
    IN  (vertical \cup shift_left(vertical) \cup shift_right(vertical)) \cap BB_ALL

\* trailing_zeros of a non-zero bitboard: the lowest set position.
leading_bit(bb) == CHOOSE s \in bb : \A t \in bb : s >= t

trailing_zeros(bb) == CHOOSE s \in bb : \A t \in bb : s <= t

\* The loop `while bb != 0 { sq = trailing_zeros(bb); bb &= bb - 1; .. }`:
\* the squares of bb in the order the loop visits them.
RECURSIVE BitScan(_)
BitScan(bb) ==
    IF bb = {} THEN <<>>
    ELSE LET sq == trailing_zeros(bb)
         IN  <<sq>> \o BitScan(bb \ {sq})

\* ----------------------------------------------------------------- Board
NewBoard_rank_wall_only ==
    [white |-> {A7, G1}, black |-> {A1, G7}, walls |-> RANK_8,
     ply |-> 0, halfmove |-> 0]

NewBoard ==
    [white |-> {A7, G1}, black |-> {A1, G7}, walls |-> RANK_8 \cup FILE_H,
     ply |-> 0, halfmove |-> 0]

turn(b) == IF b.ply % 2 = 0 THEN White ELSE Black

\* The last clause of game_over (line 576): no empty cell within two ring
\* expansions of the occupied cells.
immobile_white_only(b) ==
    (expand(expand(b.white))
       \cap (ALL_BITS \ ((b.white \cup b.black) \cup b.walls))) \cap BB_ALL = {}

immobile(b) ==
    (expand(expand(b.white \cup b.black))
       \cap (ALL_BITS \ ((b.white \cup b.black) \cup b.walls))) \cap BB_ALL = {}

game_over_no_halfmove_limit(b) ==
    \/ b.white = {}
    \/ b.black = {}
    \/ (b.white \cup b.black \cup b.walls) \cap BB_ALL = BB_ALL
    \/ immobile(b)

game_over(b) ==
    \/ b.white = {}
    \/ b.black = {}
    \/ (b.white \cup b.black \cup b.walls) \cap BB_ALL = BB_ALL
    \/ b.halfmove >= HALFMOVE_LIMIT
    \/ immobile(b)

\* The quiet halfmove counter after a move (lines 426, 428, 444).
halfmove_after_keep_on_single(b, mv) ==
    CASE mv.kind = "Double" -> (b.halfmove + 1) % U8
      [] OTHER -> b.halfmove

halfmove_after_reset_on_pass(b, mv) ==
    CASE mv.kind = "Double" -> (b.halfmove + 1) % U8
      [] OTHER -> 0

halfmove_after(b, mv) ==
    CASE mv.kind = "Single" -> 0
      [] mv.kind = "Double" -> (b.halfmove + 1) % U8
      [] OTHER -> b.halfmove

\* The bits toggled in the mover's occupancy: `to` (line 432) or
\* `from | to` (line 449).
moved_bits_keep_from(mv) ==
    CASE mv.kind = "Single" -> as_set(mv.to)
      [] mv.kind = "Double" -> as_set(mv.to)
      [] OTHER -> {}

moved_bits(mv) ==
    CASE mv.kind = "Single" -> as_set(mv.to)
      [] mv.kind = "Double" -> as_set(mv.from) \cup as_set(mv.to)
      [] OTHER -> {}

\* The opponent's occupancy after the capture step (lines 434, 439).
remove_wiped_out_kept(them, wiped_out) == them

remove_wiped_out(them, wiped_out) == Xor(them, wiped_out)

make_move_pass_keeps_ply(b, mv) ==
    IF mv.kind = "Pass"
    THEN b
    ELSE
      LET flip_zone == expand(as_set(mv.to))
      IN  IF turn(b) = White
          THEN LET white1 == Xor(b.white, moved_bits(mv))
                   wiped_out == flip_zone \cap b.black
               IN  [b EXCEPT !.white = white1 \cup wiped_out,
                             !.black = remove_wiped_out(b.black, wiped_out),
                             !.halfmove = halfmove_after(b, mv),
                             !.ply = (b.ply + 1) % U8]
          ELSE LET black1 == Xor(b.black, moved_bits(mv))
                   wiped_out == flip_zone \cap b.white
               IN  [b EXCEPT !.black = black1 \cup wiped_out,
                             !.white = remove_wiped_out(b.white, wiped_out),
                             !.halfmove = halfmove_after(b, mv),
                             !.ply = (b.ply + 1) % U8]

make_move(b, mv) ==
    IF mv.kind = "Pass"
    THEN [b EXCEPT !.halfmove = halfmove_after(b, mv),
                   !.ply = (b.ply + 1) % U8]
    ELSE
      LET flip_zone == expand(as_set(mv.to))
      IN  IF turn(b) = White
          THEN LET white1 == Xor(b.white, moved_bits(mv))
                   wiped_out == flip_zone \cap b.black
               IN  [b EXCEPT !.white = white1 \cup wiped_out,
                             !.black = remove_wiped_out(b.black, wiped_out),
                             !.halfmove = halfmove_after(b, mv),
                             !.ply = (b.ply + 1) % U8]
          ELSE LET black1 == Xor(b.black, moved_bits(mv))
                   wiped_out == flip_zone \cap b.white
               IN  [b EXCEPT !.black = black1 \cup wiped_out,
                             !.white = remove_wiped_out(b.white, wiped_out),
                             !.halfmove = halfmove_after(b, mv),
                             !.ply = (b.ply + 1) % U8]

us_of(b) == IF turn(b) = White THEN b.white ELSE b.black
them_of(b) == IF turn(b) = White THEN b.black ELSE b.white
empty_of(b) == ALL_BITS \ (us_of(b) \cup them_of(b) \cup b.walls)

doubles_tgt_with_ring1(from, empty) ==
    LET local_singles == expand(as_set(from))
    IN  expand(local_singles) \cap empty

doubles_tgt(from, empty) ==
    LET local_singles == expand(as_set(from))
    IN  (expand(local_singles) \cap empty) \ local_singles

SeqMap(Op(_), s) == [i \in 1..Len(s) |-> Op(s[i])]

RECURSIVE Flatten(_)
Flatten(ss) == IF ss = <<>> THEN <<>> ELSE Head(ss) \o Flatten(Tail(ss))

\* Lines 469-505: the enumeration proper, for a listener that always
\* returns false: the moves in the order they are handed over.
generate_unchecked_singles_only(b) ==
    LET us == us_of(b)
        empty == empty_of(b)
        singles == expand(us) \cap empty
        SingleMv(to) == Single(to)
        single_moves == SeqMap(SingleMv, BitScan(singles))
        DoublesOf(from) ==
            LET DoubleMv(to) == Double(from, to)
            IN  SeqMap(DoubleMv, BitScan(doubles_tgt(from, empty)))
        double_moves == Flatten(SeqMap(DoublesOf, BitScan(us)))
        any_generated == singles # {}
    IN  single_moves \o double_moves \o (IF ~any_generated THEN <<Pass>> ELSE <<>>)

generate_unchecked(b) ==
    LET us == us_of(b)
        empty == empty_of(b)
        singles == expand(us) \cap empty
        SingleMv(to) == Single(to)
        single_moves == SeqMap(SingleMv, BitScan(singles))
        DoublesOf(from) ==
            LET DoubleMv(to) == Double(from, to)
            IN  SeqMap(DoubleMv, BitScan(doubles_tgt(from, empty)))
        double_moves == Flatten(SeqMap(DoublesOf, BitScan(us)))
        any_generated ==
            singles # {} \/ \E from \in us : doubles_tgt(from, empty) # {}
    IN  single_moves \o double_moves \o (IF ~any_generated THEN <<Pass>> ELSE <<>>)

generate_moves_no_check(b) == generate_unchecked(b)

generate_moves_partial_check(b) ==
    IF b.white = {} \/ b.black = {} \/ b.halfmove >= HALFMOVE_LIMIT
    THEN <<>>
    ELSE generate_unchecked(b)

\* The moves handed to a listener that always returns false, in order.
generate_moves(b) ==
    IF game_over(b) THEN <<>> ELSE generate_unchecked(b)

\* ------------------------------------------------ generate_moves, listener
\* The state of a listener that returns true on its k-th call: the moves it
\* has been handed (`out`) and whether its last call returned true
\* (`stop`).  A loop of generate_moves hands it the candidates in order and
\* executes `return` as soon as a call returns true.
NotCalled == [out |-> <<>>, stop |-> FALSE]

RECURSIVE feed(_, _, _)
feed(st, cands, k) ==
    IF st.stop \/ cands = <<>> THEN st
    ELSE LET out == Append(st.out, Head(cands))
         IN  feed([out |-> out, stop |-> Len(out) = k], Tail(cands), k)

\* Lines 488-502: the loop over origins with its inner loop over targets.
\* The `return` of line 499 leaves generate_moves, not only the inner loop.
RECURSIVE doubles_loop_break(_, _, _, _)
doubles_loop_break(st, srcs, empty, k) ==
    IF srcs = <<>> THEN st
    ELSE LET from == Head(srcs)
             DoubleMv(to) == Double(from, to)
             inner == feed([st EXCEPT !.stop = FALSE],
                           SeqMap(DoubleMv, BitScan(doubles_tgt(from, empty))), k)
         IN  doubles_loop_break(inner, Tail(srcs), empty, k)

RECURSIVE doubles_loop(_, _, _, _)
doubles_loop(st, srcs, empty, k) ==
    IF st.stop \/ srcs = <<>> THEN st
    ELSE LET from == Head(srcs)
             DoubleMv(to) == Double(from, to)
             inner == feed(st, SeqMap(DoubleMv, BitScan(doubles_tgt(from, empty))), k)
         IN  doubles_loop(inner, Tail(srcs), empty, k)

\* generate_moves with a listener that returns true on its k-th call: the
\* moves the listener has received when generate_moves returns.
generate_moves_listener(b, k) ==
    IF game_over(b) THEN <<>>
    ELSE LET us == us_of(b)
             empty == empty_of(b)
             singles == expand(us) \cap empty
             SingleMv(to) == Single(to)
             after_singles == feed(NotCalled, SeqMap(SingleMv, BitScan(singles)), k)
             after_doubles == doubles_loop(after_singles, BitScan(us), empty, k)
             any_generated ==
                 singles # {} \/ \E from \in us : doubles_tgt(from, empty) # {}
         IN  IF after_doubles.stop THEN after_doubles.out
             ELSE IF ~any_generated THEN Append(after_doubles.out, Pass)
             ELSE after_doubles.out

NotHeard == <<NoMove>>

popcount(bb) == Cardinality(bb)

outcome_swapped(b) ==
    IF ~game_over(b) THEN "None"
    ELSE IF popcount(b.white) < popcount(b.black) THEN White
    ELSE IF popcount(b.white) = popcount(b.black) THEN "Tie"
    ELSE Black

\* Option<Option<Player>>: "None", "Tie" for Some(None), or the winner.
outcome(b) ==
    IF ~game_over(b) THEN "None"
    ELSE IF popcount(b.white) < popcount(b.black) THEN Black
    ELSE IF popcount(b.white) = popcount(b.black) THEN "Tie"
    ELSE White

\* ----------------------------------------------------------------- perft
RECURSIVE SumSeq(_)
SumSeq(s) == IF s = <<>> THEN 0 ELSE Head(s) + SumSeq(Tail(s))

\* perft lines 8-15: the listener counts the moves it is handed.
count_moves_from_one(b) == 1 + Len(generate_moves(b))

count_moves(b) == Len(generate_moves(b))

\* perft lines 19-20: the move is applied to a copy of the caller's board.
\* `child` is the board handed to the recursive call, `caller` the board
\* the caller holds afterwards.
branch_in_place(b, mv) == [child |-> make_move(b, mv), caller |-> make_move(b, mv)]

branch(b, mv) == [child |-> make_move(b, mv), caller |-> b]

\* perft as a walk that returns the node count together with the caller's
\* board as the call leaves it.
RECURSIVE perft_walk(_, _)
RECURSIVE perft_fold(_, _, _)
perft_fold(b, moves, depth) ==
    IF moves = <<>> THEN [count |-> 0, board |-> b]
    ELSE LET br == branch(b, Head(moves))
             sub == perft_walk(br.child, depth - 1)
             rest == perft_fold(br.caller, Tail(moves), depth)
         IN  [count |-> sub.count + rest.count, board |-> rest.board]

perft_walk(b, depth) ==
    IF depth = 0 THEN [count |-> 1, board |-> b]
    ELSE IF depth = 1 THEN [count |-> count_moves(b), board |-> b]
    ELSE perft_fold(b, generate_moves(b), depth)

perft(b, depth) == perft_walk(b, depth).count

NoPerft == [depth |-> -1, nodes |-> -1]

\* ------------------------------------------------------ make_random_move
\* mv_count (lines 523, 535).
mv_count_of(singles, double_map) ==
    popcount(singles) + SumSeq([i \in 1..64 |-> popcount(double_map[i - 1])])

\* The two selection loops (lines 545-566): count `choice` down over the
\* candidates; NoMove when the candidates run out (unreachable!()).
RECURSIVE select_decrement_first(_, _)
select_decrement_first(moves, choice) ==
    IF moves = <<>> THEN NoMove
    ELSE IF choice - 1 = 0 THEN Head(moves)
    ELSE select_decrement_first(Tail(moves), choice - 1)

RECURSIVE select(_, _)
select(moves, choice) ==
    IF moves = <<>> THEN NoMove
    ELSE IF choice = 0 THEN Head(moves)
    ELSE select(Tail(moves), choice - 1)

NotAsked == <<>>

\* make_random_move with an rng that returns rng_choice when it is called.
\* `asked` is the pair of arguments the rng was called with.
make_random_move(b, rng_choice) ==
    IF game_over(b) THEN [board |-> b, asked |-> NotAsked, unreachable |-> FALSE]
    ELSE
      LET us == us_of(b)
          empty == empty_of(b)
          singles == expand(us) \cap empty
          double_map == [from \in ALL_BITS |->
                           IF from \in us THEN doubles_tgt(from, empty) ELSE {}]
          mv_count == mv_count_of(singles, double_map)
          any_generated == singles # {} \/ \E from \in us : double_map[from] # {}
          SingleMv(to) == Single(to)
          DoublesOf(i) ==
              LET DoubleMv(to) == Double(i - 1, to)
              IN  SeqMap(DoubleMv, BitScan(double_map[i - 1]))
          candidates == SeqMap(SingleMv, BitScan(singles))
                          \o Flatten([i \in 1..64 |-> DoublesOf(i)])
          pick == select(candidates, rng_choice)
      IN  IF ~any_generated
          THEN [board |-> make_move(b, Pass), asked |-> NotAsked, unreachable |-> FALSE]
          ELSE IF pick = NoMove
          THEN [board |-> b, asked |-> <<0, mv_count>>, unreachable |-> TRUE]
          ELSE [board |-> make_move(b, pick), asked |-> <<0, mv_count>>,
                unreachable |-> FALSE]

NoRandom == [board |-> NewBoard, asked |-> NotAsked, unreachable |-> FALSE]

\* ------------------------------------------------------ index encoding
compressed_index_stride8(sq) == file(sq) + rank(sq) * 8

compressed_index(sq) == file(sq) + rank(sq) * 7

from_rank_file(r, f) == r * 8 + f

from_compressed_index(index) == from_rank_file(index \div 7, index % 7)

index(mv) ==
    CASE mv.kind = "Single" ->
           compressed_index(mv.to) + compressed_index(mv.to) * (7 * 7)
      [] mv.kind = "Double" ->
           compressed_index(mv.to) + compressed_index(mv.from) * (7 * 7)
      [] OTHER -> compressed_index(A1) + compressed_index(G7) * (7 * 7)

from_index_always_double(i) ==
    IF i = compressed_index(A1) + compressed_index(G7) * (7 * 7)
    THEN Pass
    ELSE Double(from_compressed_index(i \div (7 * 7)), from_compressed_index(i % (7 * 7)))

from_index(i) ==
    IF i = compressed_index(A1) + compressed_index(G7) * (7 * 7)
    THEN Pass
    ELSE LET to == from_compressed_index(i % (7 * 7))
             from == from_compressed_index(i \div (7 * 7))
         IN  IF from = to THEN Single(to) ELSE Double(from, to)

NoCode == [index |-> -1, move |-> NoMove]

\* ------------------------------------------------------------------- fen
\* A record string is modelled by its whitespace-separated parts: the seven
\* rank fields (first part split at '/', each a sequence of characters),
\* the side-to-move character, and the two decimal numbers as digit
\* sequences.
Digits == <<"0", "1", "2", "3", "4", "5", "6", "7", "8", "9">>

\* char::to_digit(10): the value of a decimal digit, -1 for any other char.
to_digit(c) ==
    IF \E v \in 0..9 : Digits[v + 1] = c
    THEN CHOOSE v \in 0..9 : Digits[v + 1] = c
    ELSE -1

\* to_string() of an unsigned integer.
RECURSIVE to_string(_)
to_string(n) ==
    IF n < 10 THEN <<Digits[n + 1]>>
    ELSE to_string(n \div 10) \o <<Digits[(n % 10) + 1]>>

\* str::parse of an unsigned integer: its value, -1 when it is no number.
RECURSIVE parse_digits(_, _)
parse_digits(cs, acc) ==
    IF cs = <<>> THEN acc
    ELSE IF to_digit(Head(cs)) < 0 THEN -1
    ELSE parse_digits(Tail(cs), acc * 10 + to_digit(Head(cs)))

parse_uint(cs) == IF cs = <<>> THEN -1 ELSE parse_digits(cs, 0)

to_char(player) == IF player = White THEN "x" ELSE "o"

from_char(c) == IF c = "x" THEN White ELSE IF c = "o" THEN Black ELSE "None"

player_at(b, sq) ==
    IF sq \in b.white THEN White
    ELSE IF sq \in b.black THEN Black
    ELSE "None"

wall_at(b, sq) == sq \in b.walls

\* The inner loop of fen (lines 619-626): the length of the run of cells
\* without a piece that starts at file f.
RECURSIVE empty_run(_, _, _)
empty_run(b, r, f) ==
    IF f < 6 /\ player_at(b, from_rank_file(r, f + 1)) = "None"
    THEN 1 + empty_run(b, r, f + 1)
    ELSE 1

\* The characters fen writes for rank r from file f on (lines 610-634).
RECURSIVE fen_rank(_, _, _)
fen_rank(b, r, f) ==
    IF f >= 7 THEN <<>>
    ELSE LET sq == from_rank_file(r, f)
         IN  IF player_at(b, sq) # "None"
             THEN <<to_char(player_at(b, sq))>> \o fen_rank(b, r, f + 1)
             ELSE IF wall_at(b, sq)
             THEN <<"-">> \o fen_rank(b, r, f + 1)
             ELSE to_string(empty_run(b, r, f))
                    \o fen_rank(b, r, f + empty_run(b, r, f))

fen(b) ==
    [ranks |-> [i \in 1..7 |-> fen_rank(b, 7 - i, 0)],
     stm |-> <<to_char(turn(b))>>,
     halfmove |-> to_string(b.halfmove),
     fullmove |-> to_string(b.ply \div 2 + 1)]

\* The character loop of reset_from_fen_parts for one rank field (lines
\* 666-697), applied to the local `state`: the state and file index after
\* the characters cs, or err.
RECURSIVE parse_rank(_, _, _, _)
parse_rank(state, rank_idx, file_idx, cs) ==
    IF cs = <<>> THEN [err |-> file_idx # 7, state |-> state]
    ELSE IF file_idx >= 8 THEN [err |-> TRUE, state |-> state]
    ELSE LET c == Head(cs)
             sq == from_rank_file(6 - rank_idx, file_idx)
         IN  IF to_digit(c) >= 0
             THEN parse_rank(state, rank_idx, file_idx + to_digit(c), Tail(cs))
             ELSE IF from_char(c) = White
             THEN parse_rank([state EXCEPT !.white = @ \cup as_set(sq)],
                             rank_idx, file_idx + 1, Tail(cs))
             ELSE IF from_char(c) = Black
             THEN parse_rank([state EXCEPT !.black = @ \cup as_set(sq)],
                             rank_idx, file_idx + 1, Tail(cs))
             ELSE IF c = "-"
             THEN parse_rank([state EXCEPT !.walls = @ \cup as_set(sq)],
                             rank_idx, file_idx + 1, Tail(cs))
             ELSE [err |-> TRUE, state |-> state]

RECURSIVE parse_ranks(_, _, _)
parse_ranks(state, ranks, rank_idx) ==
    IF rank_idx >= Len(ranks) THEN [err |-> FALSE, state |-> state]
    ELSE LET r == parse_rank(state, rank_idx, 0, ranks[rank_idx + 1])
         IN  IF r.err THEN r ELSE parse_ranks(r.state, ranks, rank_idx + 1)

\* reset_from_fen_parts on the board self: the board self holds afterwards
\* and whether the result is Ok.  The parsed position is collected in the
\* local `state` (line 663); the only field of self that is written is ply
\* (line 722).
reset_from_fen_parts(self, parts) ==
    LET parsed == parse_ranks(NewBoard, parts.ranks, 0)
        halfmove == parse_uint(parts.halfmove)
        fullmove == parse_uint(parts.fullmove)
        black_to_move == from_char(parts.stm[1]) = Black
        failed ==
            \/ Len(parts.ranks) # 7
            \/ parsed.err
            \/ Len(parts.stm) # 1
            \/ from_char(parts.stm[1]) = "None"
            \/ halfmove < 0 \/ halfmove >= U8
            \/ fullmove < 0
    IN  IF failed THEN [ok |-> FALSE, board |-> self]
        ELSE [ok |-> TRUE,
              board |-> [self EXCEPT !.ply =
                           ((fullmove - 1) * 2 + (IF black_to_move THEN 1 ELSE 0)) % U8]]

\* impl FromStr for Board.
from_str(parts) == reset_from_fen_parts(NewBoard, parts)

\* ----------------------------------------------------------- feature_map
OFFSET == 7 * 7

\* The indices feature_map hands to its listener, in order.
feature_map(b) ==
    LET Us(sq) == compressed_index(sq)
        Them(sq) == compressed_index(sq) + OFFSET
        Walls(sq) == compressed_index(sq) + OFFSET * 2
    IN  SeqMap(Us, BitScan(us_of(b)))
          \o SeqMap(Them, BitScan(them_of(b)))
          \o SeqMap(Walls, BitScan(b.walls \cap BB_ALL))

\* ---------------------------------------------------------- the driver
\* `ply += 1` on a u8 (line 461): a build with overflow checks panics at
\* 255, a build without them wraps to 0.
ply_overflows(b) == b.ply + 1 >= U8

\* One iteration of the loop of make_random_same_as_movelist_idx: the move
\* mv, number c of the enumeration, is applied with make_move, and
\* make_random_move is run on the same board with an rng that returns c.
\* The caller has picked mv with a listener that returns true when it is
\* handed move number c.
Apply(mv, c) ==
    /\ last' = mv
    /\ prev' = board
    /\ moves_made' = moves_made + 1
    /\ perft_result' = NoPerft
    /\ coded' = coded
    /\ \/ /\ board' = make_move(board, mv)
          /\ rnd' = make_random_move(board, c)
          /\ heard' = generate_moves_listener(board, c + 1)
          /\ panicked' = FALSE
       \/ /\ ply_overflows(board)
          /\ board' = board
          /\ rnd' = rnd
          /\ heard' = heard
          /\ panicked' = TRUE

\* One iteration of a game loop: enumerate the moves of the current board
\* and apply one of them.
Play(bound) ==
    /\ ~panicked
    /\ moves_made < bound
    /\ LET moves == generate_moves(board)
       IN  \E i \in 1..Len(moves) : Apply(moves[i], i - 1)

Min(a, b) == IF a < b THEN a ELSE b

\* main.rs: perft of the current board at some depth.  The walk stays
\* inside the horizon MaxPly of the game.
RunPerft ==
    /\ ~panicked
    /\ perft_result = NoPerft
    /\ \E d \in 0..Min(MaxDepth, MaxPly - moves_made) :
         LET r == perft_walk(board, d)
         IN  /\ perft_result' = [depth |-> d, nodes |-> r.count]
             /\ board' = r.board
             /\ prev' = board
    /\ last' = NoMove
    /\ UNCHANGED <<moves_made, rnd, coded, panicked, heard>>

Init ==
    /\ board = NewBoard
    /\ last = NoMove
    /\ prev = NewBoard
    /\ moves_made = 0
    /\ rnd = NoRandom
    /\ perft_result = NoPerft
    /\ coded = NoCode
    /\ panicked = FALSE
    /\ heard = NotHeard

PlayGame == Play(MaxPly)

Next == PlayGame \/ RunPerft

Spec == Init /\ [][Next]_vars

\* ------------------------------------------------------------ long game
\* A caller that always takes the last move of the enumeration, except
\* that it takes the first one when the quiet halfmove counter is one short
\* of the limit.
selector(b, n) == IF b.halfmove < HALFMOVE_LIMIT - 1 THEN n - 1 ELSE 0

PlayLong ==
    /\ ~panicked
    /\ moves_made < MaxLongPly
    /\ LET moves == generate_moves(board)
       IN  /\ moves # <<>>
           /\ Apply(moves[selector(board, Len(moves)) + 1], selector(board, Len(moves)))

NextLong == PlayLong

SpecLong == Init /\ [][NextLong]_vars

\* The game loop goes on while the enumeration is not empty, that is while
\* the board is not game over, and stops for good once make_move has
\* panicked.  MoveApplied is enabled exactly when PlayLong is, and every
\* PlayLong step is a MoveApplied step.
CanPlayLong ==
    /\ ~panicked
    /\ moves_made < MaxLongPly
    /\ ~game_over(board)

MoveApplied == CanPlayLong /\ moves_made' = moves_made + 1

\* A game in progress is played on: a loop iteration that can run does run.
SpecLongFair == SpecLong /\ WF_moves_made(MoveApplied)

\* ----------------------------------------------------------- quiet game
\* A caller that always takes the last move of the enumeration: a Double
\* whenever the side to move has one.
PlayQuiet ==
    /\ ~panicked
    /\ moves_made < MaxQuietPly
    /\ LET moves == generate_moves(board)
       IN  /\ moves # <<>>
           /\ Apply(moves[Len(moves)], Len(moves) - 1)

NextQuiet == PlayQuiet

SpecQuiet == Init /\ [][NextQuiet]_vars

\* ------------------------------------------------- move index round trip
\* Square::all(): the 49 squares of the 7x7 region (file and rank in [0,7)).
Playable == {sq \in ALL_BITS : file(sq) # 7 /\ rank(sq) # 7}

\* The moves enumerated by tests::move_index_roundtrip, without its
\* exclusion of the pair (G7, A1).
MoveSpace ==
    {Pass} \cup {Single(to) : to \in Playable}
           \cup {Double(sq[1], sq[2]) : sq \in {p \in Playable \X Playable : p[1] # p[2]}}

InitIdx ==
    /\ board = NewBoard
    /\ last \in MoveSpace
    /\ prev = NewBoard
    /\ moves_made = 0
    /\ rnd = NoRandom
    /\ perft_result = NoPerft
    /\ coded = NoCode
    /\ panicked = FALSE
    /\ heard = NotHeard

\* Move::from_index(mv.index()) for the move drawn.
IndexRoundTrip ==
    /\ coded = NoCode
    /\ coded' = [index |-> index(last), move |-> from_index(index(last))]
    /\ UNCHANGED <<board, last, prev, moves_made, rnd, perft_result, panicked, heard>>

NextIdx == IndexRoundTrip

SpecIdx == InitIdx /\ [][NextIdx]_vars

\* ------------------------------------------------ constructed positions
\* make_move is public and validates nothing, so a caller can build any
\* pair of occupancy sets over the fixed walls of Board::new() with it.
\* The positions below colour five zones of the board uniformly: the corner
\* a7, its first ring, its second ring, the corner g1 and all other cells.
Zones == 1..5
Fill == {"w", "b", "e"}

zone_of(sq) ==
    IF distance(sq, A7) <= 2 THEN distance(sq, A7) + 1
    ELSE IF sq = G1 THEN 4
    ELSE 5

PosBoard(f, p, h) ==
    [white |-> {sq \in BB_ALL : f[zone_of(sq)] = "w"},
     black |-> {sq \in BB_ALL : f[zone_of(sq)] = "b"},
     walls |-> NewBoard.walls,
     ply |-> p,
     halfmove |-> h]

InitPos ==
    /\ \E f \in [Zones -> Fill] :
         \E p \in {2 * HALFMOVE_LIMIT, 2 * HALFMOVE_LIMIT + 1} :
           \E h \in {0, HALFMOVE_LIMIT - 1, HALFMOVE_LIMIT} :
             board = PosBoard(f, p, h)
    /\ last = NoMove
    /\ prev = board
    /\ moves_made = 0
    /\ rnd = NoRandom
    /\ perft_result = NoPerft
    /\ coded = NoCode
    /\ panicked = FALSE
    /\ heard = NotHeard

PlayPos == Play(MaxPosMoves)

NextPos == PlayPos

SpecPos == InitPos /\ [][NextPos]_vars

\* ------------------------------------------------------------ properties
Range(s) == {s[i] : i \in 1..Len(s)}
NoDuplicates(s) == \A i, j \in 1..Len(s) : s[i] = s[j] => i = j

Owned(b, player) == IF player = White THEN b.white ELSE b.black
Other(player) == IF player = White THEN Black ELSE White

\* The rules of the game, stated with Chebyshev distance.
EmptyPlayable(b) == {sq \in Playable : sq \notin b.white \cup b.black \cup b.walls}

LegalSingles(b) ==
    LET empty == EmptyPlayable(b)
        own == Owned(b, turn(b))
    IN  {Single(to) : to \in {t \in empty : \E f \in own : distance(f, t) = 1}}

LegalDoubles(b) ==
    LET empty == EmptyPlayable(b)
        own == Owned(b, turn(b))
    IN  UNION {{Double(from, to) : to \in {t \in empty : distance(from, t) = 2}} :
                 from \in own}

Legal(b) == LegalSingles(b) \cup LegalDoubles(b)

\* C1: on a board reached from Board::new() by generated moves and not game
\* over, generate_moves delivers every legal Single and Double of the side
\* to move, delivers no move twice, and delivers nothing outside the legal
\* set unless that set is empty.
C1_ExactLegalMoves ==
    ~game_over(board) =>
        LET moves == generate_moves(board)
            legal == Legal(board)
        IN  /\ NoDuplicates(moves)
            /\ legal \subseteq Range(moves)
            /\ legal # {} => Range(moves) \subseteq legal

C1_Witness ==
    /\ moves_made >= 2
    /\ ~game_over(board)
    /\ LegalSingles(board) # {}
    /\ LegalDoubles(board) # {}
    /\ Cardinality(Owned(board, turn(board))) >= 3

\* C2: a generated Single or Double changes occupancy exactly by the capture
\* rule: the mover gains `to` and every opposing cell within distance 1 of
\* `to`, loses `from` (Double) and nothing else; the opponent keeps exactly
\* its cells at distance greater than 1 from `to`; walls do not change.
C2_CaptureRule ==
    last.kind \in {"Single", "Double"} =>
        LET mover == turn(prev)
            own == Owned(prev, mover)
            opp == Owned(prev, Other(mover))
            left == IF last.kind = "Double" THEN {last.from} ELSE {}
            taken == {sq \in opp : distance(sq, last.to) <= 1}
        IN  /\ last.to \in Owned(board, mover)
            /\ left \cap Owned(board, mover) = {}
            /\ Owned(board, mover) = ((own \ left) \cup {last.to}) \cup taken
            /\ Owned(board, Other(mover)) = {sq \in opp : distance(sq, last.to) > 1}
            /\ board.walls = prev.walls

C2_Witness ==
    /\ last.kind = "Double"
    /\ \E sq \in Owned(prev, Other(turn(prev))) : distance(sq, last.to) = 1
    /\ \E sq \in Owned(prev, Other(turn(prev))) : distance(sq, last.to) > 1

\* C3: a Single sets the quiet halfmove counter to 0 whatever it was, a
\* Double increases it by exactly 1, and both hand the turn to the other
\* player.
C3_HalfmoveAndTurn ==
    /\ last.kind = "Single" => board.halfmove = 0 /\ turn(board) = Other(turn(prev))
    /\ last.kind = "Double" =>
          board.halfmove = prev.halfmove + 1 /\ turn(board) = Other(turn(prev))

C3_Witness ==
    /\ last.kind = "Single"
    /\ prev.halfmove = HALFMOVE_LIMIT - 1
    /\ board.halfmove = 0

\* C4: make_move(Pass) adds one to ply and leaves both occupancy sets, the
\* walls and the quiet halfmove counter as they were.
C4_PassFrame ==
    last.kind = "Pass" =>
        /\ board.ply = prev.ply + 1
        /\ board.white = prev.white
        /\ board.black = prev.black
        /\ board.walls = prev.walls
        /\ board.halfmove = prev.halfmove

C4_Witness ==
    /\ last.kind = "Pass"
    /\ prev.halfmove > 0
    /\ board.white # {}
    /\ board.black # {}

\* C5: on every board reached from Board::new() by generated moves, the two
\* occupancy sets and the blocked cells are pairwise disjoint.
C5_PairwiseDisjoint ==
    /\ board.white \cap board.black = {}
    /\ board.white \cap board.walls = {}
    /\ board.black \cap board.walls = {}

C5_Witness ==
    /\ moves_made >= 3
    /\ Cardinality(Owned(board, Other(turn(prev)))) < Cardinality(Owned(prev, Other(turn(prev))))

\* C6 as stated: both occupancy sets and the blocked cells lie inside the
\* 7x7 playable region.
C6_AllInsidePlayable ==
    /\ board.white \subseteq Playable
    /\ board.black \subseteq Playable
    /\ board.walls \subseteq Playable

\* C6 (amended): on every board reached from Board::new() by generated
\* moves, both occupancy sets lie inside the 7x7 playable region and the
\* blocked cells are exactly the cells outside it (rank 8 and file h).
C6_OccupancyInsideWallsOutside ==
    /\ board.white \subseteq Playable
    /\ board.black \subseteq Playable
    /\ board.walls = ALL_BITS \ Playable

C6_Witness ==
    /\ last.kind \in {"Single", "Double"}
    /\ file(last.to) = 6
    /\ last.to \in board.white \cup board.black

\* C7: on a board that is game over, generate_moves delivers no move, not
\* even Pass, and perft of that board is 0 at every depth >= 1.
C7_NothingWhenGameOver ==
    game_over(board) =>
        /\ generate_moves(board) = <<>>
        /\ \A d \in 1..MaxDepth : perft(board, d) = 0

C7_Witness ==
    /\ last.kind = "Double"
    /\ game_over(board)
    /\ board.halfmove >= HALFMOVE_LIMIT
    /\ Legal(board) # {}

\* C8: when the game is not over and the side to move has no legal Single
\* and no legal Double, generate_moves delivers exactly one move, Pass; when
\* it has a legal Single or Double, Pass is not delivered.
C8_PassIffNoMove ==
    LET moves == generate_moves(board)
        legal == Legal(board)
    IN  /\ (~game_over(board) /\ legal = {}) => moves = <<Pass>>
        /\ legal # {} => Pass \notin Range(moves)

C8_Witness ==
    /\ ~game_over(prev)
    /\ Legal(prev) = {}
    /\ last = Pass
    /\ Legal(board) # {}

\* Every empty playable cell is outside ring 1 and ring 2 of every occupied
\* cell.
Isolated(b) ==
    \A e \in EmptyPlayable(b) : \A o \in b.white \cup b.black : distance(e, o) > 2

\* C9 as stated: on such a board generate_moves delivers exactly Pass.
C9_IsolatedGivesPass ==
    Isolated(board) => generate_moves(board) = <<Pass>>

\* C9 (amended): on a board whose occupied cells are playable cells and
\* where every empty playable cell is outside ring 1 and ring 2 of every
\* occupied cell, game_over() is true and generate_moves delivers no move
\* at all.
C9_IsolatedIsGameOver ==
    (board.white \cup board.black \subseteq Playable /\ Isolated(board)) =>
        game_over(board) /\ generate_moves(board) = <<>>

C9_Witness ==
    /\ Isolated(board)
    /\ board.white # {}
    /\ board.black # {}
    /\ board.halfmove < HALFMOVE_LIMIT

\* C10: outcome() is None exactly when the game is not over; when it is
\* over the result is the player owning strictly more cells, or a tie on
\* equal counts; a board where one side owns nothing and the other owns a
\* cell is game over and won by the other.
C10_Outcome ==
    LET w == Cardinality(board.white)
        k == Cardinality(board.black)
    IN  /\ outcome(board) = "None" <=> ~game_over(board)
        /\ game_over(board) =>
             /\ w > k => outcome(board) = White
             /\ w < k => outcome(board) = Black
             /\ w = k => outcome(board) = "Tie"
        /\ (w = 0 /\ k > 0) => game_over(board) /\ outcome(board) = Black
        /\ (k = 0 /\ w > 0) => game_over(board) /\ outcome(board) = White

C10_Witness ==
    /\ last.kind \in {"Single", "Double"}
    /\ prev.white # {}
    /\ board.white = {}
    /\ outcome(board) = Black

\* The move sequences of length d playable from b: each move is one that
\* generate_moves delivers on the board reached by the moves before it.
RECURSIVE MoveSequences(_, _)
MoveSequences(b, d) ==
    IF d = 0 THEN {<<>>}
    ELSE UNION {{<<mv>> \o rest : rest \in MoveSequences(make_move(b, mv), d - 1)} :
                  mv \in Range(generate_moves(b))}

\* C11: perft(b, d) is the number of move sequences of length d playable
\* from b: 1 at depth 0, the number of delivered moves at depth 1.
C11_PerftCountsSequences ==
    perft_result # NoPerft =>
        /\ perft_result.nodes = Cardinality(MoveSequences(prev, perft_result.depth))
        /\ perft_result.depth = 0 => perft_result.nodes = 1
        /\ perft_result.depth = 1 =>
             perft_result.nodes = Cardinality(Range(generate_moves(prev)))

C11_Witness ==
    /\ perft_result.depth = 2
    /\ moves_made >= 1
    /\ perft_result.nodes > 200

\* C12: perft of the starting position at depth 1 is 16: 6 Single moves and
\* 10 Double moves.
C12_StartPerftOne ==
    (moves_made = 0 /\ perft_result.depth = 1) =>
        LET moves == generate_moves(prev)
        IN  /\ perft_result.nodes = 16
            /\ Cardinality({i \in 1..Len(moves) : moves[i].kind = "Single"}) = 6
            /\ Cardinality({i \in 1..Len(moves) : moves[i].kind = "Double"}) = 10

C12_Witness ==
    /\ prev = NewBoard
    /\ perft_result.depth = 1
    /\ perft_result.nodes = 16

\* C13: a perft call of depth >= 1 leaves the caller's board as it was, in
\* every field.
C13_PerftLeavesBoard ==
    perft_result.depth >= 1 => board = prev

C13_Witness ==
    /\ perft_result.depth >= 2
    /\ perft_result.nodes > 1
    /\ board.ply = 1
    /\ board = prev

\* C14: make_random_move with an rng returning c gives the board that
\* make_move gives for move number c of the enumeration, asks the rng for a
\* value in [0, n) exactly when a Single or Double exists, never reaches
\* unreachable!(), and changes nothing on a board that is game over.
C14_RandomMatchesEnumeration ==
    /\ last # NoMove =>
         /\ rnd.board = board
         /\ ~rnd.unreachable
         /\ last.kind \in {"Single", "Double"} =>
              rnd.asked = <<0, Len(generate_moves(prev))>>
         /\ last = Pass => rnd.asked = NotAsked
    /\ game_over(board) =>
         \A c \in 0..1 :
           make_random_move(board, c) =
             [board |-> board, asked |-> NotAsked, unreachable |-> FALSE]

C14_Witness ==
    /\ last.kind = "Double"
    /\ rnd.asked # NotAsked
    /\ rnd.board = board
    /\ \E i \in 1..Len(generate_moves(prev)) :
         i > 20 /\ generate_moves(prev)[i] = last

\* C15 as stated: for every move of the move space, from_index(index(m))
\* is m.
C15_IndexRoundTripAll ==
    coded # NoCode => coded.move = last

\* C15 (amended): for every move of the move space other than
\* Double{from: G7, to: A1}, from_index(index(m)) is m; Double{G7, A1} has
\* the index of Pass and decodes as Pass.
C15_IndexRoundTripButOne ==
    coded # NoCode =>
        /\ last # Double(G7, A1) => coded.move = last
        /\ last = Double(G7, A1) => coded.index = index(Pass) /\ coded.move = Pass

C15_Witness ==
    /\ coded # NoCode
    /\ last.kind = "Double"
    /\ last.from = G7
    /\ coded.move = last

\* C16: for the starting board and every board reached from it by generated
\* moves, decoding the record produced by fen() succeeds and gives a board
\* equal to the original in every field.
C16_FenRoundTrip ==
    LET decoded == from_str(fen(board))
    IN  decoded.ok /\ decoded.board = board

C18_PlyCountsHalfMoves ==
    ~panicked /\ board.ply = moves_made

\* The legal Single and Double moves of one player, whoever is to move.
LegalFor(b, player) ==
    LET empty == EmptyPlayable(b)
        own == Owned(b, player)
    IN  {Single(to) : to \in {t \in empty : \E f \in own : distance(f, t) = 1}}
          \cup UNION {{Double(from, to) : to \in {t \in empty : distance(from, t) = 2}} :
                        from \in own}

WellFormed(b) ==
    /\ b.white \cap b.black = {}
    /\ b.white \cup b.black \subseteq Playable

\* One side has a legal move, the other has none, and the joint immobility
\* clause of game_over holds.
JointOnly(b) ==
    /\ WellFormed(b)
    /\ immobile(b)
    /\ \/ LegalFor(b, White) # {} /\ LegalFor(b, Black) = {}
       \/ LegalFor(b, Black) # {} /\ LegalFor(b, White) = {}

\* C19 as stated: there is a board on which the immobility clause holds
\* while exactly one side still has a legal move: some placement of pieces
\* on the current board (its walls and counters kept) is such a board.
C19_JointOnlyBoardExists ==
    \E f \in [Zones -> Fill] :
        LET placed == PosBoard(f, board.ply, board.halfmove)
        IN  JointOnly([board EXCEPT !.white = placed.white, !.black = placed.black])

\* C19 (amended): on every board with disjoint occupancy sets inside the
\* playable region, if the immobility clause of game_over holds then
\* neither side has a legal Single or Double; the joint test never ends a
\* game in which one side could still move.
C19_JointImmobilityIsMutual ==
    (WellFormed(board) /\ immobile(board)) =>
        LegalFor(board, White) = {} /\ LegalFor(board, Black) = {}

C19_Witness ==
    /\ last.kind = "Single"
    /\ immobile(board)
    /\ ~immobile(prev)
    /\ board.white # {}
    /\ board.black # {}

\* Move a is delivered before move b: Singles before Doubles, Singles by
\* destination, Doubles by origin and then by destination.
Before(a, b) ==
    \/ a.kind = "Single" /\ b.kind = "Single" /\ a.to < b.to
    \/ a.kind = "Single" /\ b.kind = "Double"
    \/ /\ a.kind = "Double"
       /\ b.kind = "Double"
       /\ \/ a.from < b.from
          \/ a.from = b.from /\ a.to < b.to

\* C20: generate_moves delivers first all Single moves in strictly
\* increasing destination index, then all Double moves in strictly
\* increasing origin index and, per origin, strictly increasing destination
\* index. generate_moves is an operator of the board alone, so a second
\* enumeration of the same board is the same sequence.
C20_FixedMoveOrder ==
    LET moves == generate_moves(board)
    IN  /\ \A i \in 1..(Len(moves) - 1) : Before(moves[i], moves[i + 1])
        /\ \A i \in 1..Len(moves) : \A j \in 1..Len(moves) :
             i < j => Before(moves[i], moves[j])

C20_Witness ==
    LET moves == generate_moves(board)
    IN  /\ moves_made >= 1
        /\ \E i \in 1..Len(moves) : \E j \in 1..Len(moves) : \E k \in 1..Len(moves) :
             /\ i < j
             /\ j < k
             /\ moves[i].kind = "Single"
             /\ moves[j].kind = "Double"
             /\ moves[k].kind = "Double"
             /\ moves[j].from < moves[k].from
        /\ \E j \in 1..Len(moves) : \E k \in 1..Len(moves) :
             /\ moves[j].kind = "Double"
             /\ moves[k].kind = "Double"
             /\ moves[j].from = moves[k].from
             /\ moves[j].to < moves[k].to
        /\ Cardinality({i \in 1..Len(moves) : moves[i].kind = "Single"}) >= 2

\* C21: when the listener returns true on the k-th move it is handed,
\* generate_moves returns at once: the listener has received exactly the
\* first k moves of the full enumeration, the k-th being the last, and no
\* further Single, Double or Pass.
C21_EarlyReturn ==
    (last # NoMove /\ ~panicked) =>
        LET full == generate_moves(prev)
            k == Len(heard)
        IN  /\ k >= 1
            /\ k <= Len(full)
            /\ heard = SubSeq(full, 1, k)
            /\ heard[k] = last

C21_Witness ==
    /\ last.kind = "Double"
    /\ ~panicked
    /\ Len(heard) < Len(generate_moves(prev))
    /\ \E i \in 1..Len(heard) : heard[i].kind = "Double" /\ heard[i].from < last.from
    /\ \E i \in (Len(heard) + 1)..Len(generate_moves(prev)) :
         generate_moves(prev)[i].from > last.from

\* The playable cells within Chebyshev distance 1 of some cell of S.
Ring(S) == {t \in Playable : \E sq \in S : distance(sq, t) <= 1}

\* The sets expand is checked on.  On every board: the sets the last
\* make_move and the next generate_moves and game_over hand to expand (the
\* cells of the move, the occupancy of the side to move, all occupied
\* cells).  Before the first move also: every single playable cell, every
\* file and every rank of the playable region, and the region itself.
ExpandInputs ==
    {us_of(board), board.white \cup board.black}
      \cup {as_set(sq) \cap Playable : sq \in {last.from, last.to}}
      \cup (IF moves_made = 0
            THEN {Playable}
                   \cup {{sq} : sq \in Playable}
                   \cup {{sq \in Playable : file(sq) = f} : f \in 0..6}
                   \cup {{sq \in Playable : rank(sq) = r} : r \in 0..6}
            ELSE {})

\* C22: for a set S of playable cells, expand(S) is exactly the set of
\* playable cells within Chebyshev distance 1 of some cell of S, S
\* included; a cell of file g gives no cell of file a of the next rank, a
\* cell of file a gives no cell of file g of the previous rank, and no cell
\* of the blocked rank or file is produced.
C22_ExpandIsChebyshevRing ==
    \A S \in ExpandInputs :
        LET ring == Ring(S)
            expanded == expand(S)
        IN  /\ expanded = ring
            /\ S \subseteq expanded
            /\ expanded \subseteq Playable
            /\ \A sq \in S :
                 /\ (file(sq) = 6 /\ sq + 2 \notin ring) => sq + 2 \notin expanded
                 /\ (file(sq) = 0 /\ sq - 2 \notin ring) => sq - 2 \notin expanded

\* A Single to a cell of file a while the opponent holds the file-g cell
\* of the rank below, which is at distance 6 and stays with the opponent.
C22_Witness ==
    /\ last.kind = "Single"
    /\ file(last.to) = 0
    /\ rank(last.to) >= 1
    /\ last.to - 2 \in Owned(prev, Other(turn(prev)))
    /\ last.to - 2 \in Owned(board, Other(turn(prev)))
    /\ last.to - 2 \notin expand(as_set(last.to))

\* C23: when generate_moves delivers Pass and it is applied, the board is
\* not game over, the turn has gone to the opponent, and the opponent has a
\* legal Single or Double there, so the next enumeration delivers no Pass:
\* two consecutive Pass moves do not occur.
C23_PassHandsOver ==
    (last = Pass /\ ~panicked) =>
        LET opponent == Other(turn(prev))
            moves == generate_moves(board)
        IN  /\ ~game_over(board)
            /\ turn(board) = opponent
            /\ LegalFor(board, opponent) # {}
            /\ moves # <<>>
            /\ Pass \notin Range(moves)

C23_Witness ==
    /\ last = Pass
    /\ ~panicked
    /\ prev.halfmove = HALFMOVE_LIMIT - 1
    /\ LegalFor(prev, turn(prev)) = {}
    /\ Cardinality(Range(generate_moves(board))) >= 2

\* C24: every game played from Board::new() with generated moves reaches
\* a board with game_over() true after finitely many moves (here: unless
\* the game is still running at the horizon MaxLongPly of the long game).
C24_EveryGameEnds ==
    <>(game_over(board) \/ moves_made >= MaxLongPly)

\* C25: on every board reached from Board::new() with generated moves the
\* quiet halfmove counter is at most 100, and a Double increases it by
\* exactly 1: the 8-bit counter does not overflow.
C25_HalfmoveWithinLimit ==
    /\ board.halfmove <= HALFMOVE_LIMIT
    /\ board.halfmove < U8
    /\ (last.kind = "Double" /\ ~panicked) => board.halfmove = prev.halfmove + 1

C25_Witness ==
    /\ last.kind = "Double"
    /\ ~panicked
    /\ prev.halfmove = HALFMOVE_LIMIT - 1
    /\ board.halfmove = HALFMOVE_LIMIT
    /\ game_over(board)
    /\ generate_moves(board) = <<>>

====
